---- MODULE Spec2Model ----
(***************************************************************************)
(* Task lifecycle of the WebODM orthomosaic backend: the in-memory task    *)
(* registry (src/utils/__init__.py, `tasks`), the background manager       *)
(* process_task, and the request handlers of routes.py.                    *)
(*                                                                         *)
(* The manager and the synchronous handlers run on pool threads, so every  *)
(* access to the registry or to the disk is one step of the model; calls   *)
(* that touch neither (a network call, a sleep) are folded into the next   *)
(* registry or disk access of the same thread.                             *)
(*                                                                         *)
(* Managers of different tasks share nothing but the registry and the      *)
(* disk, both keyed by task id.  Spec is the whole service; OneTask is the *)
(* life of a single task against every interleaving of requests, and       *)
(* OneAtATime runs tasks one after the other, so that a submission meets   *)
(* the records earlier tasks have left.                                    *)
(***************************************************************************)
EXTENDS Integers, Sequences, FiniteSets, TLC

\* ---------------------------------------------------------------- bounds
\* Number of task ids uuid4 can hand out (accepted submissions).
MaxTasks == 2
\* Largest number of image files in one directory of an extracted archive.
MaxImages == 1
\* Consecutive absent polls that are counted (the count saturates here).
MaxAbsent == 2

TaskIds == 1..MaxTasks

\* Python's None.
None == "None"

\* ------------------------------------------------------ remote status codes
\* The three codes process_task interprets (lines 184, 201, 206).
FAILED == 30
COMPLETED == 40
CANCELED == 50
\* Codes it does not interpret (the remote's "queued" and "running").
OtherCodes == {10, 20}

\* Progress forced on completion (line 195).
FullProgress == 100

\* -------------------------------------------------------------- file names
\* A file name is a sequence of characters.
Lower(c) ==
  CASE c = "Z" -> "z" [] c = "I" -> "i" [] c = "P" -> "p"
    [] c = "R" -> "r" [] c = "A" -> "a" [] c = "B" -> "b"
    [] OTHER -> c

\* str.lower()
lower(s) == [i \in 1..Len(s) |-> Lower(s[i])]

\* str.endswith(suffix)
endswith(s, suf) ==
  /\ Len(s) >= Len(suf)
  /\ SubSeq(s, Len(s) - Len(suf) + 1, Len(s)) = suf

\* s.split('.')[-1]: what follows the last dot (all of s when it has none).
RECURSIVE split_last(_)
split_last(s) ==
  IF s = <<>> THEN <<>>
  ELSE IF s[Len(s)] = "." THEN <<>>
  ELSE Append(split_last(SubSeq(s, 1, Len(s) - 1)), s[Len(s)])

DotZip == <<".", "z", "i", "p">>
DotRar == <<".", "r", "a", "r">>

\* The file names submissions are drawn from.
FileNames ==
  { <<"a", ".", "z", "i", "p">>,
    <<"B", ".", "R", "A", "R">>,
    <<"c", ".", "t", "a", "r">>,
    <<"z", "i", "p">>,
    <<"a", ".", "z", "i", "p", ".", "t", "x", "t">> }

\* An extension test on what follows the last dot (the test of line 32's
\* split), which takes a name without a dot for its own extension.
accepted_by_extension(filename) ==
  split_last(lower(filename)) \in {<<"z", "i", "p">>, <<"r", "a", "r">>}

\* routes.py line 26: the extension test of upload_images.
accepted(filename) ==
  \/ endswith(lower(filename), DotZip)
  \/ endswith(lower(filename), DotRar)

\* ------------------------------------------------------------------- paths
\* os.path.join(UPLOAD_DIR, f"{task_id}.{ext}")
upload_path(t, ext) == <<"uploads", t, ext>>
\* os.path.join(OUTPUT_DIR, f"{task_id}.zip")
output_path(t) == <<"outputs", t, <<"z", "i", "p">>>>
\* os.path.join(TEMP_DIR, task_id)
extract_dir(t) == <<"temp", t>>

VARIABLES
  tasks,        \* the registry: task id -> record (a dict)
  files,        \* the paths that exist on disk
  pc,           \* position of each task's manager (process_task)
  archive_path, \* the archive_path argument of each manager
  loc,          \* the manager's local variables
  dpc,          \* position of the delete request in flight for each id
  absent_polls, \* consecutive absent polls seen by each manager (history)
  response      \* what the step just taken answered to its client
                \* (NoResponse for a step that answers nothing)

vars == <<tasks, files, pc, archive_path, loc, dpc, absent_polls, response>>

\* dict assignment d[k] = v
Put(d, k, v) == [x \in DOMAIN d \cup {k} |-> IF x = k THEN v ELSE d[x]]

\* del d[k]
Del(d, k) == [x \in DOMAIN d \ {k} |-> d[x]]

\* The answer of a step that answers no request.
NoResponse == [op |-> "none"]

\* The manager's locals before it has run.  status_code holds the code of the
\* latest answered poll, as a set that is empty until a poll was answered.
NoLocals ==
  [image_count |-> 0, webodm_task_id |-> None, error |-> None,
   status_code |-> {}]

Init ==
  /\ tasks = << >>
  /\ files = {}
  /\ pc = [t \in TaskIds |-> "idle"]
  /\ archive_path = [t \in TaskIds |-> <<>>]
  /\ loc = [t \in TaskIds |-> NoLocals]
  /\ dpc = [t \in TaskIds |-> "idle"]
  /\ absent_polls = [t \in TaskIds |-> 0]
  /\ response = NoResponse

\* Ids that were handed out: a manager is launched for each, for good.
issued == {t \in TaskIds : pc[t] # "idle"}

\* A generator that may repeat an identifier it handed out before.
uuid4_repeating == TaskIds

\* uuid.uuid4(): an identifier that was never handed out before.
uuid4 == TaskIds \ issued

\* routes.py lines 38-45: the record of a new task.
new_record(t, filename) ==
  [task_id |-> t, status |-> "queued", progress |-> 0,
   message |-> "Task queued", filename |-> filename]

\* routes.py lines 19-53, an accepted file: the archive is written, the record
\* is inserted and the manager is handed to the background runner.
upload_images(t, filename) ==
  /\ accepted(filename)
  /\ t \in uuid4
  /\ LET ext == split_last(lower(filename))
     IN /\ files' = files \cup {upload_path(t, ext)}
        /\ archive_path' = [archive_path EXCEPT ![t] = upload_path(t, ext)]
  /\ tasks' = Put(tasks, t, new_record(t, filename))
  /\ pc' = [pc EXCEPT ![t] = "L137"]
  /\ response' = [op |-> "upload", task_id |-> t, code |-> 200,
                  detail |-> "queued"]
  /\ UNCHANGED <<loc, dpc, absent_polls>>

\* routes.py lines 26-27: any other file name is refused.
upload_rejected(filename) ==
  /\ ~accepted(filename)
  /\ response' = [op |-> "upload", code |-> 400,
                  detail |-> "Only ZIP and RAR files are supported"]
  /\ UNCHANGED <<tasks, files, pc, archive_path, loc, dpc, absent_polls>>

\* ------------------------------------------------------------ process_task
\* str(KeyError(task_id)): the text of the error a lookup of a deleted id raises.
KeyErrorText == "KeyError: task_id"

\* The manager's locals with `error` set to the text of a raised exception.
Raised(t, text) == [loc EXCEPT ![t].error = text]

\* The run has ended: its locals are gone.
Finished(t) == [loc EXCEPT ![t] = NoLocals]

\* The run has ended: the poll history is dropped with it.
Forget(t) == [absent_polls EXCEPT ![t] = 0]

\* tasks[task_id][key] = val inside the try block, at position `here`: the
\* lookup tasks[task_id] raises KeyError when the id was deleted, and the
\* except clause (line 216) takes over.
TryWrite(t, here, key, val, next) ==
  /\ pc[t] = here
  /\ IF t \in DOMAIN tasks
       THEN /\ tasks' = [tasks EXCEPT ![t] = Put(@, key, val)]
            /\ pc' = [pc EXCEPT ![t] = next]
            /\ loc' = IF next = "done" THEN Finished(t) ELSE loc
            /\ absent_polls' = IF next = "done" THEN Forget(t) ELSE absent_polls
       ELSE /\ tasks' = tasks
            /\ pc' = [pc EXCEPT ![t] = "L217"]
            /\ loc' = Raised(t, KeyErrorText)
            /\ absent_polls' = absent_polls
  /\ response' = NoResponse
  /\ UNCHANGED <<files, archive_path, dpc>>

\* lines 137-138
process_task_137(t) ==
  TryWrite(t, "L137", "status", "extracting", "L138")

process_task_138(t) ==
  TryWrite(t, "L138", "message", "Extracting images...", "L141")

\* What an uploaded archive can hold: the number of image files in the
\* extraction root and in its one subdirectory.
Trees == [root : 0..MaxImages, sub : 0..MaxImages]

\* lines 107-131, extract_archive: None when the archive was unpacked, otherwise
\* the text of the exception it raises.  `present`: the archive is on disk;
\* `good`: its bytes are a valid archive; `unrar`: the unrar tool is installed.
extract_archive(ext, present, good, unrar) ==
  IF ext = <<"z", "i", "p">>
    THEN IF ~present THEN "unrar is not installed"        \* FileNotFoundError, line 128
         ELSE IF ~good THEN "Extraction failed: bad zip"  \* line 130
         ELSE None
  ELSE IF ext = <<"r", "a", "r">>
    THEN IF ~unrar THEN "unrar is not installed"          \* line 128
         ELSE IF ~present \/ ~good
           THEN "Extraction failed: RAR extraction failed" \* lines 124, 130
         ELSE None
  ELSE "Extraction failed: Unsupported archive format"    \* lines 126, 130

\* os.walk(extract_dir), top-down: the root first, then its subdirectory.
os_walk == <<"root", "sub">>

\* Image files (.jpg .jpeg .png .tif .tiff) directly in directory d of a tree.
images_in(tree, d) == IF d = "root" THEN tree.root ELSE tree.sub

\* lines 147-153: the loop body ends with `break`, so only the first directory
\* os.walk yields is looked at; image_folder stays extract_dir otherwise.
find_image_folder(tree) ==
  LET first == Head(os_walk)
  IN IF images_in(tree, first) > 0 THEN first ELSE "root"

\* The directories of an extracted tree that hold images, as they lie on disk
\* under the extraction directory of task t, each with its number of images.
extracted(t, tree) ==
  {<<"temp", t, d, images_in(tree, d)>> :
     d \in {x \in {"root", "sub"} : images_in(tree, x) > 0}}

\* shutil.rmtree(extract_dir, ignore_errors=True): what is left on disk.
rmtree(t, disk) == {f \in disk : ~(f[1] = "temp" /\ f[2] = t)}

\* lines 140-156: makedirs, extract_archive, image discovery and count.
process_task_141(t) ==
  /\ pc[t] = "L141"
  /\ \E good \in BOOLEAN, unrar \in BOOLEAN, tree \in Trees :
       LET ext == archive_path[t][3]
           err == extract_archive(ext, archive_path[t] \in files, good, unrar)
       IN IF err # None
            THEN /\ pc' = [pc EXCEPT ![t] = "L217"]
                 /\ loc' = Raised(t, err)
                 /\ files' = files \cup {extract_dir(t)}
            ELSE /\ pc' = [pc EXCEPT ![t] = "L158"]
                 /\ loc' = [loc EXCEPT ![t].image_count =
                              images_in(tree, find_image_folder(tree))]
                 /\ files' = files \cup {extract_dir(t)} \cup extracted(t, tree)
  /\ UNCHANGED <<tasks, archive_path, dpc, absent_polls>>
  /\ response' = NoResponse

\* lines 158-159
process_task_158(t) ==
  TryWrite(t, "L158", "status", "uploading", "L159")

UploadingMessage(n) == "Uploading " \o ToString(n) \o " images..."

process_task_159(t) ==
  TryWrite(t, "L159", "message", UploadingMessage(loc[t].image_count), "L161")

\* What requests.post can yield in upload_images_to_webodm (lines 55-69), as
\* the pair (webodm_task_id, error) the function returns.
PostReplies ==
  { [id |-> "uuid", error |-> None],        \* 200 with a uuid
    [id |-> None, error |-> None],          \* 200 whose body has no 'uuid'
    [id |-> None, error |-> "Error: 500"],  \* non-200
    [id |-> None, error |-> "timeout"],     \* exception with a text
    [id |-> None, error |-> ""] }           \* exception whose str() is empty

\* lines 24-69, upload_images_to_webodm for a folder of n images.
upload_images_to_webodm(n, reply) ==
  IF n = 0 THEN [id |-> None, error |-> "No images found"] ELSE reply

\* Python truthiness of `error` (line 163).
Truthy(x) == x \notin {None, ""}

\* lines 161-166: submit; on error the manager goes to lines 164-166.
process_task_161(t) ==
  /\ pc[t] = "L161"
  /\ \E reply \in PostReplies :
       LET r == upload_images_to_webodm(loc[t].image_count, reply)
       IN IF Truthy(r.error)
            THEN /\ pc' = [pc EXCEPT ![t] = "L164"]
                 /\ loc' = [loc EXCEPT ![t].error = r.error]
            ELSE /\ pc' = [pc EXCEPT ![t] = "L168"]
                 /\ loc' = [loc EXCEPT ![t].webodm_task_id = r.id]
  /\ UNCHANGED <<tasks, files, archive_path, dpc, absent_polls>>
  /\ response' = NoResponse

process_task_164(t) ==
  TryWrite(t, "L164", "status", "failed", "L165")

\* line 165, then `return` (line 166): the run ends without the cleanup.
process_task_165(t) ==
  TryWrite(t, "L165", "message", loc[t].error, "done")

\* lines 168-170
process_task_168(t) ==
  TryWrite(t, "L168", "webodm_task_id", loc[t].webodm_task_id, "L169")

process_task_169(t) ==
  TryWrite(t, "L169", "status", "processing", "L170")

process_task_170(t) ==
  TryWrite(t, "L170", "message", "Processing orthomosaic...", "L173")

\* Progress values the remote service reports.
ProgressReports == {0, 50, 100}

\* What check_webodm_task_status (lines 72-87) returns when the remote service
\* answers 200 with a well-formed body: the status code and the progress.
\* (Otherwise, on a transport failure or a non-200 answer, it returns None.)
PollReplies ==
  [status_code : {COMPLETED, FAILED, CANCELED} \cup OtherCodes,
   progress : ProgressReports]

\* A loop that keeps polling on the running code only and takes any code it
\* does not know for a failure.
after_poll_running_only(status_code) ==
  IF status_code = COMPLETED THEN "L185"
  ELSE IF status_code = CANCELED THEN "L207"
  ELSE IF status_code = 20 THEN "L173"
  ELSE "L202"

\* lines 184-211: where the loop goes on a status code, after line 182.
after_poll(status_code) ==
  IF status_code = COMPLETED THEN "L185"
  ELSE IF status_code = FAILED THEN "L202"
  ELSE IF status_code = CANCELED THEN "L207"
  ELSE "L173"                       \* time.sleep(10), next iteration

\* An absent poll taken for a failure of the task.
after_absent_poll_fatal == "L197"

\* lines 175-177: an absent poll sleeps and polls again.
after_absent_poll == "L173"

\* The count of consecutive absent polls, kept up to MaxAbsent.
CountAbsent(n) == IF n < MaxAbsent THEN n + 1 ELSE n

\* lines 173-177: a poll that yields None.
process_task_173_absent(t) ==
  /\ pc[t] = "L173"
  /\ pc' = [pc EXCEPT ![t] = after_absent_poll]
  /\ absent_polls' = [absent_polls EXCEPT ![t] = CountAbsent(@)]
  /\ UNCHANGED <<tasks, files, archive_path, loc, dpc>>
  /\ response' = NoResponse

\* line 182: the progress field takes the value the poll reported.
polled_progress(old, reported) == reported

\* lines 173-182 and the branch on the code: an answered poll, the write of
\* the progress field, and the branch of lines 184-211.
process_task_173(t) ==
  /\ pc[t] = "L173"
  /\ \E status_data \in PollReplies :
       IF t \in DOMAIN tasks
         THEN /\ tasks' = [tasks EXCEPT
                             ![t] = Put(@, "progress",
                                        polled_progress(@.progress,
                                                        status_data.progress))]
              /\ pc' = [pc EXCEPT ![t] = after_poll(status_data.status_code)]
              /\ absent_polls' =
                   [absent_polls EXCEPT
                      ![t] = IF after_poll(status_data.status_code) = "L173"
                               THEN 0 ELSE @]
              /\ loc' = [loc EXCEPT ![t].status_code = {status_data.status_code}]
         ELSE /\ pc' = [pc EXCEPT ![t] = "L217"]
              /\ loc' = [Raised(t, KeyErrorText) EXCEPT
                           ![t].status_code = {status_data.status_code}]
              /\ UNCHANGED <<tasks, absent_polls>>
  /\ UNCHANGED <<files, archive_path, dpc>>
  /\ response' = NoResponse

\* lines 185-186
process_task_185(t) ==
  TryWrite(t, "L185", "status", "downloading", "L186")

process_task_186(t) ==
  TryWrite(t, "L186", "message", "Downloading results...", "L189")

\* What download_from_webodm (lines 90-104) can do: write the whole file and
\* return True; return False with nothing written (non-200, or an error before
\* the file is opened); return False after the file was opened for writing.
FetchOutcomes == {"written", "refused", "broken"}

\* lines 90-104: the return value.
download_from_webodm(outcome) == outcome = "written"

\* lines 98-100: the file exists once open() has run.
fetch_leaves_file(outcome) == outcome \in {"written", "broken"}

\* lines 188-191
process_task_189(t) ==
  /\ pc[t] = "L189"
  /\ \E outcome \in FetchOutcomes :
       /\ files' = IF fetch_leaves_file(outcome)
                     THEN files \cup {output_path(t)} ELSE files
       /\ pc' = [pc EXCEPT ![t] =
                   IF download_from_webodm(outcome) THEN "L192" ELSE "L197"]
  /\ UNCHANGED <<tasks, archive_path, loc, dpc, absent_polls>>
  /\ response' = NoResponse

\* lines 192-195
process_task_192(t) ==
  TryWrite(t, "L192", "status", "completed", "L193")

process_task_193(t) ==
  TryWrite(t, "L193", "message", "Complete!", "L194")

process_task_194(t) ==
  TryWrite(t, "L194", "output_file", output_path(t), "L195")

process_task_195(t) ==
  TryWrite(t, "L195", "progress", FullProgress, "L213")

\* lines 197-198
process_task_197(t) ==
  TryWrite(t, "L197", "status", "failed", "L198")

process_task_198(t) ==
  TryWrite(t, "L198", "message", "Download failed", "L213")

\* lines 202-203
process_task_202(t) ==
  TryWrite(t, "L202", "status", "failed", "L203")

process_task_203(t) ==
  TryWrite(t, "L203", "message", "Processing failed", "L213")

\* lines 207-208
process_task_207(t) ==
  TryWrite(t, "L207", "status", "failed", "L208")

process_task_208(t) ==
  TryWrite(t, "L208", "message", "Task canceled", "L213")

\* str(FileNotFoundError) of os.remove (line 214).
NoSuchFileText == "No such file or directory"

\* lines 213-214: rmtree(extract_dir, ignore_errors=True), then
\* os.remove(archive_path), which raises when the archive is gone.
process_task_213(t) ==
  /\ pc[t] = "L213"
  /\ IF archive_path[t] \in files
       THEN /\ files' = rmtree(t, files) \ {archive_path[t]}
            /\ pc' = [pc EXCEPT ![t] = "done"]
            /\ loc' = Finished(t)
            /\ absent_polls' = Forget(t)
       ELSE /\ files' = rmtree(t, files)
            /\ pc' = [pc EXCEPT ![t] = "L217"]
            /\ loc' = Raised(t, NoSuchFileText)
            /\ absent_polls' = absent_polls
  /\ response' = NoResponse
  /\ UNCHANGED <<tasks, archive_path, dpc>>

\* An except clause that writes with tasks.setdefault(task_id, {})[key] = val
\* and so brings back the record of an id that was deleted.
HandlerWrite_recreating(t, here, key, val, next) ==
  /\ pc[t] = here
  /\ tasks' = IF t \in DOMAIN tasks
                THEN [tasks EXCEPT ![t] = Put(@, key, val)]
                ELSE Put(tasks, t, Put(<< >>, key, val))
  /\ pc' = [pc EXCEPT ![t] = next]
  /\ loc' = IF next = "done" THEN Finished(t) ELSE loc
  /\ absent_polls' = IF next = "done" THEN Forget(t) ELSE absent_polls
  /\ response' = NoResponse
  /\ UNCHANGED <<files, archive_path, dpc>>

\* A registry write in the except clause (lines 216-218): a KeyError raised
\* here is caught by nothing, and the run ends with an uncaught error.
HandlerWrite(t, here, key, val, next) ==
  /\ pc[t] = here
  /\ IF t \in DOMAIN tasks
       THEN /\ tasks' = [tasks EXCEPT ![t] = Put(@, key, val)]
            /\ pc' = [pc EXCEPT ![t] = next]
       ELSE /\ tasks' = tasks
            /\ pc' = [pc EXCEPT ![t] = "uncaught"]
  /\ loc' = IF pc'[t] \in {"done", "uncaught"} THEN Finished(t) ELSE loc
  /\ absent_polls' =
       IF pc'[t] \in {"done", "uncaught"} THEN Forget(t) ELSE absent_polls
  /\ response' = NoResponse
  /\ UNCHANGED <<files, archive_path, dpc>>

\* An except clause that swallows the error without marking the task failed.
process_task_217_swallow(t) ==
  /\ pc[t] = "L217"
  /\ pc' = [pc EXCEPT ![t] = "done"]
  /\ loc' = Finished(t)
  /\ absent_polls' = Forget(t)
  /\ response' = NoResponse
  /\ UNCHANGED <<tasks, files, archive_path, dpc>>

\* line 217
process_task_217(t) ==
  HandlerWrite(t, "L217", "status", "failed", "L218")

\* line 218
process_task_218(t) ==
  HandlerWrite(t, "L218", "message", loc[t].error, "done")

process_task(t) ==
  \/ process_task_137(t) \/ process_task_138(t) \/ process_task_141(t)
  \/ process_task_158(t) \/ process_task_159(t) \/ process_task_161(t)
  \/ process_task_164(t) \/ process_task_165(t) \/ process_task_168(t)
  \/ process_task_169(t) \/ process_task_170(t) \/ process_task_173(t)
  \/ process_task_173_absent(t)
  \/ process_task_185(t) \/ process_task_186(t) \/ process_task_189(t)
  \/ process_task_192(t) \/ process_task_193(t) \/ process_task_194(t)
  \/ process_task_195(t) \/ process_task_197(t) \/ process_task_198(t)
  \/ process_task_202(t) \/ process_task_203(t) \/ process_task_207(t)
  \/ process_task_208(t) \/ process_task_213(t) \/ process_task_217(t)
  \/ process_task_218(t)

\* ------------------------------------------------------------- delete_task
\* routes.py lines 109-112: a delete request for a known id starts.
delete_task_109(t) ==
  /\ dpc[t] = "idle"
  /\ t \in DOMAIN tasks
  /\ dpc' = [dpc EXCEPT ![t] = "L114"]
  /\ UNCHANGED <<tasks, files, pc, archive_path, loc, absent_polls>>
  /\ response' = NoResponse

\* routes.py lines 114-115.  `task` is the dict the registry holds, so the test
\* reads the manager's latest write.
delete_task_114(t) ==
  /\ dpc[t] = "L114"
  /\ files' = IF "output_file" \in DOMAIN tasks[t]
                THEN files \ {tasks[t].output_file} ELSE files
  /\ dpc' = [dpc EXCEPT ![t] = "L120"]
  /\ UNCHANGED <<tasks, pc, archive_path, loc, absent_polls>>
  /\ response' = NoResponse

\* The uploaded archives named by a task id (routes.py line 119).
upload_files(t) ==
  {upload_path(t, <<"z", "i", "p">>), upload_path(t, <<"r", "a", "r">>)}

\* routes.py line 120: os.path.exists(upload_file).
delete_task_120(t) ==
  /\ dpc[t] = "L120"
  /\ dpc' = [dpc EXCEPT ![t] =
               IF upload_files(t) \cap files # {} THEN "L121" ELSE "L123"]
  /\ UNCHANGED <<tasks, files, pc, archive_path, loc, absent_polls>>
  /\ response' = NoResponse

\* routes.py line 121: os.remove(upload_file); when the manager removed the
\* archive since the test of line 120, it raises and the request ends there.
delete_task_121(t) ==
  /\ dpc[t] = "L121"
  /\ IF upload_files(t) \cap files # {}
       THEN /\ files' = files \ upload_files(t)
            /\ dpc' = [dpc EXCEPT ![t] = "L123"]
       ELSE /\ files' = files
            /\ dpc' = [dpc EXCEPT ![t] = "idle"]
  /\ response' = IF dpc'[t] = "idle"
                   THEN [op |-> "delete", task_id |-> t, code |-> 500,
                         detail |-> NoSuchFileText]
                   ELSE NoResponse
  /\ UNCHANGED <<tasks, pc, archive_path, loc, absent_polls>>

\* routes.py line 123: del tasks[task_id].
delete_task_123(t) ==
  /\ dpc[t] = "L123"
  /\ tasks' = Del(tasks, t)
  /\ dpc' = [dpc EXCEPT ![t] = "idle"]
  /\ response' = [op |-> "delete", task_id |-> t, code |-> 200,
                  detail |-> "Task deleted"]
  /\ UNCHANGED <<files, pc, archive_path, loc, absent_polls>>

\* routes.py lines 109-110: a delete request for an unknown id.
delete_task_404(t) ==
  /\ t \notin DOMAIN tasks
  /\ response' = [op |-> "delete", task_id |-> t, code |-> 404,
                  detail |-> "Task not found"]
  /\ UNCHANGED <<tasks, files, pc, archive_path, loc, dpc, absent_polls>>

delete_task(t) ==
  \/ delete_task_109(t) \/ delete_task_114(t) \/ delete_task_120(t)
  \/ delete_task_121(t) \/ delete_task_123(t) \/ delete_task_404(t)

\* A download handler that trusts the record and does not look at the disk.
download_answer_unchecked(t, reg, disk) ==
  IF t \notin DOMAIN reg
    THEN [op |-> "download", task_id |-> t, code |-> 404,
          detail |-> "Task not found"]
  ELSE IF reg[t].status # "completed"
    THEN [op |-> "download", task_id |-> t, code |-> 400,
          detail |-> "Status: " \o reg[t].status]
  ELSE [op |-> "download", task_id |-> t, code |-> 200,
        detail |-> "orthomosaic.zip"]

\* --------------------------------------------------------- download_result
\* routes.py lines 74-94: the answer of a download request for id t, read off
\* the registry `reg` and the disk `disk`.
download_answer(t, reg, disk) ==
  IF t \notin DOMAIN reg
    THEN [op |-> "download", task_id |-> t, code |-> 404,
          detail |-> "Task not found"]
  ELSE IF reg[t].status # "completed"
    THEN [op |-> "download", task_id |-> t, code |-> 400,
          detail |-> "Status: " \o reg[t].status]
  ELSE IF \/ "output_file" \notin DOMAIN reg[t]
          \/ reg[t].output_file \notin disk
    THEN [op |-> "download", task_id |-> t, code |-> 404,
          detail |-> "File not found"]
  ELSE [op |-> "download", task_id |-> t, code |-> 200,
        detail |-> "orthomosaic.zip"]

download_result(t) ==
  /\ response' = download_answer(t, tasks, files)
  /\ UNCHANGED <<tasks, files, pc, archive_path, loc, dpc, absent_polls>>

\* A status handler that answers for an id it does not know.
status_answer_lenient(t, reg) ==
  [op |-> "status", task_id |-> t, code |-> 200,
   body |-> IF t \in DOMAIN reg THEN reg[t].status ELSE "unknown"]

\* --------------------------------------------------------- get_task_status
\* routes.py lines 56-71: the answer of a status request for id t.
status_answer(t, reg) ==
  IF t \notin DOMAIN reg
    THEN [op |-> "status", task_id |-> t, code |-> 404,
          detail |-> "Task not found"]
  ELSE [op |-> "status", task_id |-> t, code |-> 200,
        body |-> [status |-> reg[t].status,
                  progress |-> reg[t].progress,
                  message |-> reg[t].message,
                  download_url |-> IF reg[t].status = "completed"
                                     THEN "/download/task_id" ELSE None]]

get_task_status(t) ==
  /\ response' = status_answer(t, tasks)
  /\ UNCHANGED <<tasks, files, pc, archive_path, loc, dpc, absent_polls>>

\* routes.py lines 97-103: list_tasks.
list_tasks ==
  /\ response' = [op |-> "list", code |-> 200,
                  listing |-> [total |-> Cardinality(DOMAIN tasks),
                               tasks |-> {tasks[t] : t \in DOMAIN tasks}]]
  /\ UNCHANGED <<tasks, files, pc, archive_path, loc, dpc, absent_polls>>

\* ----------------------------------------------------------- specifications
\* A client submits an archive.
Submit == \E t \in TaskIds : \E filename \in FileNames : upload_images(t, filename)

\* A manager takes a step.
Run == \E t \in TaskIds : process_task(t)

\* A delete request starts or takes a step.
Delete == \E t \in TaskIds : delete_task(t)

\* A request that changes nothing is answered.
Read ==
  \/ \E t \in TaskIds : download_result(t) \/ get_task_status(t)
  \/ \E filename \in FileNames : upload_rejected(filename)
  \/ list_tasks

\* The whole service: any number of managers side by side.
Next == Submit \/ Run \/ Delete \/ Read

Spec == Init /\ [][Next]_vars

\* The smallest id of a set of ids.
least(S) == CHOOSE t \in S : \A u \in S : t <= u

\* Ids are interchangeable: the code only compares them and builds paths from
\* them.  In the life of one task, requests therefore name the id that was
\* handed out or one id that was not (the smallest).
Asked == issued \cup (IF uuid4 = {} THEN {} ELSE {least(uuid4)})

\* The life of one task: a single archive is submitted, and its manager runs
\* against every interleaving of requests.
OneTaskNext ==
  \/ issued = {} /\ \E filename \in FileNames :
                      upload_images(least(uuid4), filename)
  \/ Run
  \/ \E t \in Asked : delete_task(t)
  \/ \E t \in Asked : download_result(t) \/ get_task_status(t)
  \/ \E filename \in FileNames : upload_rejected(filename)
  \/ list_tasks

OneTask == Init /\ [][OneTaskNext]_vars

\* The manager of task t has ended.
Ended(t) == pc[t] \in {"done", "uncaught"}

\* No manager is running and no delete request is in flight.
Quiescent == \A u \in issued : Ended(u) /\ dpc[u] = "idle"

\* Tasks one after the other: an archive is submitted once the earlier runs
\* have ended, and a task is deleted once its run has ended.
OneAtATimeNext ==
  \/ Quiescent /\ Submit
  \/ Run
  \/ \E t \in TaskIds : Ended(t) /\ delete_task(t)

OneAtATime == Init /\ [][OneAtATimeNext]_vars

\* Fair scheduling of one task: a launched manager keeps taking steps, and the
\* remote service does not answer every poll forever with "absent" or with a
\* code that means "still running".
TerminalPoll(t) == process_task_173(t) /\ pc'[t] # "L173"

\* The requests that change nothing are left out of the fair runs: they write
\* only `response` and cannot delay a manager.
OneTaskFairNext ==
  \/ issued = {} /\ \E filename \in FileNames :
                      upload_images(least(uuid4), filename)
  \/ Run
  \/ \E t \in Asked : delete_task(t)

OneTaskFair ==
  /\ Init /\ [][OneTaskFairNext]_vars
  /\ \A t \in TaskIds : WF_vars(process_task(t)) /\ WF_vars(TerminalPoll(t))

\* ------------------------------------------------------------------ claims
Known == DOMAIN tasks

\* The ids whose record exists before and after the step.
Kept == DOMAIN tasks \cap DOMAIN tasks'

\* The status changes of the transition table (spec section 4.3).
TableTransitions ==
  { <<"queued", "extracting">>, <<"extracting", "uploading">>,
    <<"uploading", "processing">>, <<"processing", "downloading">>,
    <<"downloading", "completed">>, <<"extracting", "failed">>,
    <<"uploading", "failed">>, <<"processing", "failed">>,
    <<"downloading", "failed">> }

\* C1: every change of a task's status is a transition of the table; no stage
\* is skipped and no other status change occurs.
C1_OnlyTableTransitions ==
  [][\A t \in Kept :
       tasks'[t].status # tasks[t].status
         => <<tasks[t].status, tasks'[t].status>> \in TableTransitions]_vars

\* C2: completed and failed are terminal: while the record exists, a status
\* of completed or failed never changes again.
C2_TerminalStaysTerminal ==
  [][\A t \in Kept :
       tasks[t].status \in {"completed", "failed"}
         => tasks'[t].status = tasks[t].status]_vars

\* C3: in every state a record has its output path set if and only if its
\* status is completed.
C3_OutputPathIffCompleted ==
  \A t \in Known :
    ("output_file" \in DOMAIN tasks[t]) <=> (tasks[t].status = "completed")

\* C4: a download request answers with the archive exactly when the id is in
\* the registry, the status is completed and the recorded output file is on
\* disk; otherwise not-found (unknown id, missing file) or a status-describing
\* error (status not completed); it changes neither the registry nor the disk.
C4_DownloadIffCompletedAndOnDisk ==
  [][response'.op = "download" =>
       LET t == response'.task_id
           ready == /\ t \in Known
                    /\ tasks[t].status = "completed"
                    /\ "output_file" \in DOMAIN tasks[t]
                    /\ tasks[t].output_file \in files
       IN /\ tasks' = tasks /\ files' = files
          /\ (response'.code = 200) <=> ready
          /\ response'.code \in {200, 400, 404}
          /\ (response'.code = 400) <=>
               (t \in Known /\ tasks[t].status # "completed")
          /\ response'.code = 400 =>
               response'.detail = "Status: " \o tasks[t].status]_vars

\* C4's case: a download answered with the archive.
C4_Witness ==
  /\ response.op = "download"
  /\ response.code = 200

\* C5: in every state a completed task has progress exactly 100.
C5_CompletedHasFullProgress ==
  \A t \in Known :
    tasks[t].status = "completed" => tasks[t].progress = 100

\* C6: progress is 0 at creation and never decreases while the status is
\* processing, whatever progress values the remote service reports.
C6_ProgressNeverDecreases ==
  [][/\ \A t \in DOMAIN tasks' \ DOMAIN tasks : tasks'[t].progress = 0
     /\ \A t \in Kept :
          (tasks[t].status = "processing" /\ tasks'[t].status = "processing")
            => tasks'[t].progress >= tasks[t].progress]_vars

\* C7: an absent poll leaves the record unchanged and the manager polls
\* again; however many polls were absent the task is still processing, and
\* the loop is only left by an answered poll, towards the branch of its code
\* (never towards failed because polls were absent).
C7_AbsentPollIsTransient ==
  /\ [][\A t \in TaskIds :
          /\ (pc[t] = "L173" /\ absent_polls'[t] > absent_polls[t])
               => (tasks' = tasks /\ files' = files /\ pc'[t] = "L173")
          /\ (pc[t] = "L173" /\ pc'[t] # "L173" /\ t \in Known)
               => /\ pc'[t] \in {"L185", "L202", "L207"}
                  /\ tasks'[t].status = "processing"]_vars
  /\ [](\A t \in TaskIds \cap Known :
          pc[t] = "L173" => tasks[t].status = "processing")

\* C7's case: a task completed after MaxAbsent consecutive absent polls.
C7_Witness ==
  \E t \in Known :
    /\ absent_polls[t] = MaxAbsent
    /\ tasks[t].status = "completed"

\* C8: under fair scheduling, a task whose remote service eventually answers
\* with a terminal code is eventually completed or failed, unless it is
\* deleted; an error in any stage does not leave it in a non-terminal status.
C8_EventuallyTerminal ==
  \A t \in TaskIds :
    [](t \in Known
         => <>(t \notin Known \/ tasks[t].status \in {"completed", "failed"}))

\* C8's case: an error raised in a stage was caught and the task is failed.
C8_Witness ==
  \E t \in Known :
    /\ pc[t] = "done"
    /\ tasks[t].status = "failed"
    /\ tasks[t].message = "Extraction failed: bad zip"

\* C9: every error raised in a manager run is absorbed by the manager: no run
\* ends with an uncaught error, whatever delete requests interleave with it.
C9_NoUncaughtError ==
  \A t \in TaskIds : pc[t] # "uncaught"

\* C10: an accepted submission adds exactly one record, under an id never
\* issued before, with status queued and progress 0, present when the manager
\* is launched; every other record is unchanged.
C10_SubmissionAddsOneQueuedRecord ==
  [][(response'.op = "upload" /\ response'.code = 200) =>
       LET t == response'.task_id
           name == lower(tasks'[t].filename)
       IN /\ t \notin issued
          /\ t \notin Known
          /\ DOMAIN tasks' = Known \cup {t}
          /\ \A u \in Known : tasks'[u] = tasks[u]
          /\ tasks'[t].status = "queued"
          /\ tasks'[t].progress = 0
          /\ pc'[t] = "L137"
          /\ \A u \in TaskIds \ {t} : pc'[u] = pc[u]
          /\ SubSeq(name, Len(name) - 3, Len(name)) \in {DotZip, DotRar}]_vars

\* C10's case: an archive was accepted while the record of an earlier task
\* is still in the registry.
C10_Witness ==
  /\ response.op = "upload"
  /\ response.code = 200
  /\ \E u \in Known : u # response.task_id

\* C11: a submission whose file name does not end in .zip or .rar (whatever
\* the case of its letters) is refused with an error and changes nothing: no
\* id is issued, no record added, no file written, no manager launched; and a
\* submission that is accepted carries a name that ends in .zip or .rar.
C11_RejectedSubmissionHasNoEffect ==
  /\ \A filename \in FileNames :
       LET name == lower(filename)
           ends == /\ Len(name) >= 4
                   /\ SubSeq(name, Len(name) - 3, Len(name)) \in {DotZip, DotRar}
       IN accepted(filename) <=> ends
  /\ [][response'.op = "upload" =>
          IF response'.code = 200
            THEN accepted(tasks'[response'.task_id].filename)
            ELSE /\ response'.code = 400
                 /\ tasks' = tasks
                 /\ files' = files
                 /\ pc' = pc
                 /\ issued' = issued]_vars

\* C11's case: a submission was refused while a task exists.
C11_Witness ==
  /\ response.op = "upload"
  /\ response.code = 400
  /\ Known # {}
  /\ files # {}

\* C12: for every id that is not in the registry, the status, download and
\* delete requests each answer not-found, and the registry and the disk are
\* left as they were.
C12_UnknownIdIsNotFound ==
  /\ [](\A t \in TaskIds \ Known :
          /\ status_answer(t, tasks).code = 404
          /\ download_answer(t, tasks, files).code = 404
          /\ ENABLED delete_task_404(t)
          /\ ~ENABLED delete_task_109(t))
  /\ [][(/\ response'.op \in {"status", "download", "delete"}
          /\ response'.task_id \notin Known)
          => /\ response'.code = 404
             /\ tasks' = tasks
             /\ files' = files
             /\ pc' = pc]_vars

\* C12's case: a request for an id that was deleted is answered not-found
\* while files of that id are still on disk.
C12_Witness ==
  /\ response.op \in {"status", "download", "delete"}
  /\ response.code = 404
  /\ response.task_id \in issued
  /\ files # {}

\* The paths on disk that are named by task id t.
files_of(t, disk) == {f \in disk : f[2] = t}

\* C13: when a delete request for a completed task returns, the task's
\* output file is no longer on disk and its id is no longer in the registry
\* (so that later status, download and delete requests for it answer
\* not-found); the records and files of the other tasks are unchanged.
C13_DeleteCompletedRemovesOutput ==
  [][\A t \in Known :
       (/\ response'.op = "delete" /\ response'.code = 200
        /\ response'.task_id = t
        /\ tasks[t].status = "completed")
         => /\ output_path(t) \notin files'
            /\ t \notin DOMAIN tasks'
            /\ status_answer(t, tasks').code = 404
            /\ download_answer(t, tasks', files').code = 404
            /\ \A u \in Known \ {t} :
                 /\ u \in DOMAIN tasks' /\ tasks'[u] = tasks[u]
                 /\ files_of(u, files') = files_of(u, files)]_vars

\* C14: when a manager run has ended with the task completed or failed, by
\* whichever exit (extraction error, submit error or zero images, remote
\* failed or canceled, download failure, success), and no delete request has
\* touched the task, its extraction directory and its uploaded archive are
\* gone from the disk, and the output file of a completed task is there.
C14_RunEndCleansUp ==
  \A t \in Known :
    (/\ pc[t] = "done" /\ dpc[t] = "idle"
     /\ tasks[t].status \in {"completed", "failed"})
      => /\ extract_dir(t) \notin files
         /\ archive_path[t] \notin files
         /\ tasks[t].status = "completed" => output_path(t) \in files

\* The ids whose record a delete request has removed: an id is handed out
\* together with its record, and only delete_task removes a record.
deleted == issued \ Known

\* C15: once a delete request for a task has returned successfully, whatever
\* the task's status was and even if its manager is still running, no uploaded
\* archive and no output file named by that id is on disk in any later state.
C15_DeletedTaskLeavesNoFiles ==
  \A t \in deleted :
    dpc[t] = "idle"
      => /\ upload_files(t) \cap files = {}
         /\ output_path(t) \notin files

\* C16: while a task is processing, a poll result is interpreted by three
\* codes only: the completed code leads to downloading, the failed and the
\* canceled code lead to failed with messages that tell them apart, and any
\* other code (the running code included) leaves the status processing,
\* changes at most the progress field and is followed by another poll.
C16_ThreeCodesInterpreted ==
  /\ [](\A t \in TaskIds :
          /\ pc[t] = "L173" => loc[t].status_code \subseteq OtherCodes
          /\ pc[t] \in {"L185", "L186"} => loc[t].status_code = {COMPLETED}
          /\ pc[t] \in {"L202", "L203"} => loc[t].status_code = {FAILED}
          /\ pc[t] \in {"L207", "L208"} => loc[t].status_code = {CANCELED})
  /\ [][\A t \in Kept :
          LET code == loc'[t].status_code
              same(keys) == \A k \in DOMAIN tasks[t] \ keys :
                              tasks'[t][k] = tasks[t][k]
          IN /\ pc[t] = "L173" =>
                  /\ DOMAIN tasks'[t] = DOMAIN tasks[t]
                  /\ same({"progress"})
                  /\ tasks'[t].status = "processing"
                  /\ code = {COMPLETED} => pc'[t] = "L185"
                  /\ code = {FAILED} => pc'[t] = "L202"
                  /\ code = {CANCELED} => pc'[t] = "L207"
                  /\ code \cap {COMPLETED, FAILED, CANCELED} = {}
                       => pc'[t] = "L173"
             /\ (pc[t] = "L185" /\ pc'[t] # pc[t])
                  => tasks'[t].status = "downloading"
             /\ (pc[t] \in {"L202", "L207"} /\ pc'[t] # pc[t])
                  => tasks'[t].status = "failed"
             /\ (pc[t] = "L203" /\ pc'[t] # pc[t])
                  => tasks'[t].message = "Processing failed"
             /\ (pc[t] = "L208" /\ pc'[t] # pc[t])
                  => tasks'[t].message = "Task canceled"]_vars

\* C16's case: a poll answered with a code other than the three has changed
\* the progress and the task is still processing, about to be polled again.
C16_Witness ==
  \E t \in Known :
    /\ pc[t] = "L173"
    /\ loc[t].status_code # {}
    /\ loc[t].status_code \subseteq OtherCodes
    /\ tasks[t].status = "processing"
    /\ tasks[t].progress = 50

\* C17: in every state a task that is processing, downloading or completed
\* has the identifier the remote service returned recorded in its record,
\* a real one and not an absent value, whatever the submit call yielded.
C17_RemoteIdRecorded ==
  \A t \in Known :
    tasks[t].status \in {"processing", "downloading", "completed"}
      => /\ "webodm_task_id" \in DOMAIN tasks[t]
         /\ tasks[t].webodm_task_id # None

\* The number of images in the first directory, breadth-first from the
\* extraction root of task t, that holds an image on disk; 0 when none does.
first_image_set(t, disk) ==
  LET held(d) == {f \in disk : /\ Len(f) = 4
                               /\ f[1] = "temp" /\ f[2] = t /\ f[3] = d}
      count(d) == IF held(d) = {} THEN 0 ELSE (CHOOSE f \in held(d) : TRUE)[4]
  IN IF count("root") > 0 THEN count("root") ELSE count("sub")

\* C18: image discovery takes the first directory, breadth-first from the
\* extraction root, that holds an image: whenever some directory of the
\* extracted tree holds an image, the images of that directory are counted
\* and submitted, and the task fails with "No images found" only when no
\* directory of the tree holds one.
C18_FirstDirectoryWithImages ==
  \A t \in Known :
    /\ pc[t] \in {"L158", "L159", "L161"}
         => loc[t].image_count = first_image_set(t, files)
    /\ tasks[t].message = "No images found"
         => first_image_set(t, files) = 0

\* C19: once a delete request has removed an id from the registry the id is
\* never in the registry again: under every interleaving, a manager still
\* running for it never inserts or recreates the record; its next registry
\* write ends in an error instead.
C19_DeletedIdNeverReturns ==
  [][\A t \in deleted :
       /\ t \notin DOMAIN tasks'
       /\ (pc'[t] # pc[t]) => pc'[t] \in {"L158", "L164", "L168", "L192",
                                         "L197", "L217", "done", "uncaught"}]_vars

\* C19's case: the manager of a deleted task has attempted a registry write.
C19_Witness ==
  \E t \in deleted :
    /\ pc[t] = "L217"
    /\ loc[t].error = KeyErrorText

\* C20: a failed task has no file at its output location; in particular a
\* fetch that fails after it began to write leaves no partial output file.
C20_FailedTaskHasNoOutputFile ==
  \A t \in Known :
    tasks[t].status = "failed" => output_path(t) \notin files
====
